---- MODULE Spec2Model ----
(***************************************************************************)
(* Traffic assignment engine of m205k9b/traffic_task: the All-or-Nothing   *)
(* assigner (src/AON.py, class AONAssignment) and the Incremental assigner *)
(* (src/IA.py, class IAAssignment) over a networkx DiGraph.                *)
(*                                                                         *)
(* Arithmetic.  Python floats are modelled by exact rationals with fixed   *)
(* denominators: a flow f is stored as the integer f * FlowScale and a     *)
(* cost t as the integer t * CostScale, float('inf') as Inf.  FlowScale is *)
(* the num_increments of the run, so demand * (1.0 / num_increments) is an *)
(* integer number of flow units; rounding of IEEE doubles is not modelled. *)
(*                                                                         *)
(* Shortest paths.  nx.shortest_path(..., weight='cost') returns one       *)
(* minimum-cost path; which one among equal-cost paths depends on the      *)
(* library's heap order, so the model lets the computation pick any        *)
(* minimum-cost simple path.  An edge of cost inf is still relaxed by      *)
(* networkx (inf is a weight, not a missing edge).                         *)
(***************************************************************************)
EXTENDS Integers, Sequences, FiniteSets, TLC

VARIABLES
    cls,                \* which class was instantiated: "AON" or "IA"
    edges,              \* the edge list handed to the constructor
    graph,              \* self.graph: directed edge -> attribute record
    has_paths,          \* whether the attribute self.shortest_paths exists
    shortest_paths,     \* self.shortest_paths: (source, target) -> path, cost
    op,                 \* the method invoked last ("other": one that only updates costs or paths)
    demand_file,        \* the entries (from, to, amount) of the demand file, in file order
    demand_matrix,      \* the demand matrix get_demand made of them, passed to every call
    run_increments,     \* the num_increments the driver of the run is configured with
    num_increments,     \* num_increments argument of the running or last assign_demand
    pc,                 \* "idle", or "loop" inside IAAssignment.assign_demand
    i,                  \* completed iterations of the loop of assign_demand
    increment_records,  \* increment_records of the running/last assign_demand
    status,             \* outcome of the last call: "ok" or the exception
    warned,             \* OD pairs of the "no path" warnings printed by the call
    calls               \* number of assigning calls made so far

vars == <<cls, edges, graph, has_paths, shortest_paths, op, demand_file,
          demand_matrix, run_increments, num_increments, pc, i, increment_records, status,
          warned, calls>>

----------------------------------------------------------------------------
(* Bounds of the model *)

MaxCalls == 2       \* assigning calls per behaviour
MaxK == 2           \* largest num_increments a run is configured with
MaxAmount == 1      \* largest demand amount of an OD entry

(* Program constants *)

AlphaNum == 3       \* bpr_params alpha = 0.15 = AlphaNum / AlphaDen
AlphaDen == 20
Beta == 4           \* bpr_params beta
Inf == 2000000000   \* float('inf')

----------------------------------------------------------------------------
(* Inputs *)

Nodes == {"A", "B", "C"}

\* Edge lists (u, v, free-flow time, capacity) given to the constructors.
NetTie == << <<"A", "B", 1, 1>>, <<"B", "C", 1, 1>>, <<"A", "C", 2, 1>> >>
NetZeroCapDetour == << <<"A", "C", 1, 0>>, <<"A", "B", 1, 1>>, <<"B", "C", 1, 1>> >>
NetZeroCapOnly == << <<"B", "C", 1, 0 - 1>>, <<"A", "B", 1, 1>> >>
NetReverse == << <<"B", "C", 1, 1>>, <<"C", "B", 2, 2>> >>

Networks == {NetTie, NetZeroCapDetour, NetZeroCapOnly, NetReverse}

\* Origins and destinations of demand entries, in the order the demand file
\* lists them; "Z" is not a node of any network.
ODOrder == << <<"A", "C">>, <<"B", "C">>, <<"A", "A">>, <<"A", "Z">> >>

ODPairs == {ODOrder[n] : n \in 1 .. Len(ODOrder)}

ODRank(o, d) == CHOOSE n \in 1 .. Len(ODOrder) : ODOrder[n] = <<o, d>>

Amounts == (0 - 1) .. MaxAmount

\* An entry for a pair that is in no path table is given a positive amount
\* (with any other amount it is skipped before the table is looked at).
DemandEntries ==
    {<<od[1], od[2], a>> : od \in ODPairs \cap (Nodes \X Nodes), a \in Amounts}
        \cup {<<od[1], od[2], a>> : od \in ODPairs, a \in 1 .. MaxAmount}

\* A demand matrix is a dict keyed by (origin, destination): entries in
\* insertion order, no key twice.
DemandMatrices ==
    {<< >>} \cup {<<e>> : e \in DemandEntries}
            \cup {ee \in DemandEntries \X DemandEntries :
                      ODRank(ee[1][1], ee[1][2]) < ODRank(ee[2][1], ee[2][2])}

\* Demand files: the lists above, and lists that give a pair of nodes twice.
DemandFiles ==
    DemandMatrices
        \cup {<< <<od[1], od[2], a>>, <<od[1], od[2], b>> >> :
                 od \in {p \in ODPairs \cap (Nodes \X Nodes) : p[1] # p[2]},
                 a \in 1 .. MaxAmount, b \in 1 .. MaxAmount}

\* demands[(begin, end)] = amount on a dict kept as its items in insertion
\* order: a new key is appended, a key already present gets the new amount
dict_set(demands, begin, end, amount) ==
    IF \E n \in 1 .. Len(demands) : demands[n][1] = begin /\ demands[n][2] = end
    THEN [n \in 1 .. Len(demands) |->
             IF demands[n][1] = begin /\ demands[n][2] = end
               THEN <<begin, end, amount>> ELSE demands[n]]
    ELSE Append(demands, <<begin, end, amount>>)

\* the dict comprehension of get_demand over the first n entries of the file
RECURSIVE get_demand_upto(_, _)
get_demand_upto(file, n) ==
    IF n = 0 THEN << >>
    ELSE dict_set(get_demand_upto(file, n - 1), file[n][1], file[n][2], file[n][3])

get_demand(file) == get_demand_upto(file, Len(file))

----------------------------------------------------------------------------
(* Number representation *)

RECURSIVE Pow(_, _)
Pow(x, n) == IF n = 0 THEN 1 ELSE x * Pow(x, n - 1)

\* Flow unit: 1 / FlowScale vehicles, so that demand * (1.0 / num_increments)
\* is a whole number of units.
FlowScale == run_increments

\* capacities of the edges of the inputs
Capacities == UNION {{net[n][4] : n \in 1 .. Len(net)} : net \in Networks}

\* the least common multiple of the positive capacities
CapUnit ==
    CHOOSE m \in 1 .. 64 :
        /\ \A c \in Capacities : c > 0 => m % c = 0
        /\ \A k \in 1 .. m - 1 : \E c \in Capacities : c > 0 /\ k % c # 0

\* Cost unit: 1 / CostScale.
CostScale == AlphaDen * Pow(FlowScale * CapUnit, Beta)

ToFlow(d) == d * FlowScale
ToCost(t) == t * CostScale

\* float addition with inf absorbing
AddCost(a, b) == IF a = Inf \/ b = Inf THEN Inf ELSE a + b

RECURSIVE SumSeq(_, _)
SumSeq(f, n) == IF n = 0 THEN 0 ELSE f[n] + SumSeq(f, n - 1)

RECURSIVE SumSet(_, _)
SumSet(f, S) == IF S = {} THEN 0
                ELSE LET x == CHOOSE y \in S : TRUE IN f[x] + SumSet(f, S \ {x})

----------------------------------------------------------------------------
(* Construction *)

AON_attrs(cost, capacity) == [cost |-> ToCost(cost), capacity |-> capacity, flow |-> 0]

IA_attrs(free_flow_time, capacity) ==
    [free_flow_time |-> ToCost(free_flow_time), capacity |-> capacity, flow |-> 0,
     cost |-> ToCost(free_flow_time), original_cost |-> ToCost(free_flow_time)]

\* DiGraph.add_edge: creates the edge or replaces the given attributes
add_edge(g, u, v, attrs) ==
    [e \in (DOMAIN g) \cup {<<u, v>>} |-> IF e = <<u, v>> THEN attrs ELSE g[e]]

RECURSIVE AON_init(_, _, _)
AON_init(g, es, n) ==
    IF n > Len(es) THEN g
    ELSE LET u == es[n][1]
             v == es[n][2]
             a == AON_attrs(es[n][3], es[n][4])
         IN AON_init(add_edge(add_edge(g, u, v, a), v, u, a), es, n + 1)

RECURSIVE IA_init(_, _, _)
IA_init(g, es, n) ==
    IF n > Len(es) THEN g
    ELSE LET u == es[n][1]
             v == es[n][2]
             a == IA_attrs(es[n][3], es[n][4])
         IN IA_init(add_edge(add_edge(g, u, v, a), v, u, a), es, n + 1)

EmptyGraph == [e \in {} |-> 0]

has_edge(g, u, v) == <<u, v>> \in DOMAIN g

----------------------------------------------------------------------------
(* Shortest paths: nx.shortest_path / nx.shortest_path_length on 'cost' *)

\* node sequences without repetition
NodeSeqs ==
    {p : p \in {q \in UNION {[1 .. n -> Nodes] : n \in 2 .. Cardinality(Nodes)} :
                    \A a, b \in 1 .. Len(q) : a # b => q[a] # q[b]}}

\* the simple paths from s to t along edges of g
SimplePaths(g, s, t) ==
    {p \in NodeSeqs :
        /\ p[1] = s
        /\ p[Len(p)] = t
        /\ \A a \in 1 .. Len(p) - 1 : has_edge(g, p[a], p[a + 1])}

RECURSIVE PathCost(_, _, _)
PathCost(g, p, n) ==
    IF n = 0 THEN 0
    ELSE AddCost(PathCost(g, p, n - 1), g[<<p[n], p[n + 1]>>].cost)

path_length(g, p) == PathCost(g, p, Len(p) - 1)

\* the minimum-cost paths from s to t; empty when t is unreachable
MinPaths(g, s, t) ==
    LET ps == SimplePaths(g, s, t)
    IN {p \in ps : \A q \in ps : path_length(g, p) <= path_length(g, q)}

\* a faulty handler that keeps the source node as the path
NoPath_keeps_source(source, target) == [path |-> <<source>>, cost |-> Inf]

\* the entry stored for (source, target) on nx.NetworkXNoPath
NoPath(source, target) == [path |-> << >>, cost |-> Inf]

\* the entries the try block can store for (source, target)
PathEntries(g, s, t) ==
    LET ps == MinPaths(g, s, t)
    IN IF ps = {} THEN {NoPath(s, t)}
       ELSE {[path |-> p, cost |-> path_length(g, p)] : p \in ps}

NodePairs == {st \in Nodes \X Nodes : st[1] # st[2]}

\* the tables the double loop over graph.nodes() can build on the pairs S
RECURSIVE PathTablesOn(_, _)
PathTablesOn(g, S) ==
    IF S = {} THEN {[st \in {} |-> 0]}
    ELSE LET x == CHOOSE y \in S : TRUE
         IN {(x :> en) @@ tbl :
                tbl \in PathTablesOn(g, S \ {x}), en \in PathEntries(g, x[1], x[2])}

\* the tables calculate_all_pairs_shortest_path can leave in self.shortest_paths
PathTables(g) == PathTablesOn(g, NodePairs)

NoTable == [st \in {} |-> 0]

----------------------------------------------------------------------------
(* AONAssignment *)

\* a faulty filter that lets every entry through
AON_skips_never(demand) == FALSE

\* the filter of assign_demand on an entry's demand
AON_skips(demand) == demand <= 0

\* a faulty loop bound that leaves out the last edge of the path
RECURSIVE AON_load_path_short(_, _, _, _)
AON_load_path_short(g, path, n, demand) ==
    IF n > Len(path) - 2 THEN g
    ELSE LET u == path[n]
             v == path[n + 1]
         IN AON_load_path_short(IF has_edge(g, u, v)
                                  THEN [g EXCEPT ![<<u, v>>].flow = @ + ToFlow(demand)]
                                  ELSE g,
                                path, n + 1, demand)

\* a faulty load that overwrites the flow of an edge instead of adding to it
RECURSIVE AON_load_path_overwrite(_, _, _, _)
AON_load_path_overwrite(g, path, n, demand) ==
    IF n > Len(path) - 1 THEN g
    ELSE LET u == path[n]
             v == path[n + 1]
         IN AON_load_path_overwrite(IF has_edge(g, u, v)
                                      THEN [g EXCEPT ![<<u, v>>].flow = ToFlow(demand)]
                                      ELSE g,
                                    path, n + 1, demand)

\* for i in range(len(path) - 1): flow of (path[i], path[i+1]) += demand
RECURSIVE AON_load_path(_, _, _, _)
AON_load_path(g, path, n, demand) ==
    IF n > Len(path) - 1 THEN g
    ELSE LET u == path[n]
             v == path[n + 1]
         IN AON_load_path(IF has_edge(g, u, v)
                            THEN [g EXCEPT ![<<u, v>>].flow = @ + ToFlow(demand)]
                            ELSE g,
                          path, n + 1, demand)

\* a faulty reset that leaves the flows of the earlier call
AON_reset_nothing(g) == g

\* a faulty reset that also clears the cost of every edge
AON_reset_flows_and_costs(g) == [e \in DOMAIN g |-> [g[e] EXCEPT !.flow = 0, !.cost = 0]]

\* the reset at the head of assign_demand
AON_reset_flows(g) == [e \in DOMAIN g |-> [g[e] EXCEPT !.flow = 0]]

\* a faulty loop that ends at the first pair without a path ('break')
RECURSIVE AON_loop_breaks(_, _, _, _, _, _)
AON_loop_breaks(g, w, hp, sp, dm, n) ==
    IF n > Len(dm) THEN [graph |-> g, warned |-> w, status |-> "ok"]
    ELSE LET od == <<dm[n][1], dm[n][2]>>
             demand == dm[n][3]
         IN IF AON_skips(demand) THEN AON_loop_breaks(g, w, hp, sp, dm, n + 1)
            ELSE IF ~hp THEN [graph |-> g, warned |-> w, status |-> "AttributeError"]
            ELSE IF od \in DOMAIN sp
                 THEN IF sp[od].path = << >>
                      THEN [graph |-> g, warned |-> Append(w, od), status |-> "ok"]
                      ELSE AON_loop_breaks(AON_load_path(g, sp[od].path, 1, demand),
                                           w, hp, sp, dm, n + 1)
            ELSE AON_loop_breaks(g, w, hp, sp, dm, n + 1)

\* the loop over demand_matrix.items(), from entry n on
RECURSIVE AON_loop(_, _, _, _, _, _)
AON_loop(g, w, hp, sp, dm, n) ==
    IF n > Len(dm) THEN [graph |-> g, warned |-> w, status |-> "ok"]
    ELSE LET od == <<dm[n][1], dm[n][2]>>
             demand == dm[n][3]
         IN IF AON_skips(demand) THEN AON_loop(g, w, hp, sp, dm, n + 1)
            ELSE IF ~hp THEN [graph |-> g, warned |-> w, status |-> "AttributeError"]
            ELSE IF od \in DOMAIN sp
                 THEN IF sp[od].path = << >>
                      THEN AON_loop(g, Append(w, od), hp, sp, dm, n + 1)
                      ELSE AON_loop(AON_load_path(g, sp[od].path, 1, demand),
                                    w, hp, sp, dm, n + 1)
            ELSE AON_loop(g, w, hp, sp, dm, n + 1)

AON_assign(g, hp, sp, dm) == AON_loop(AON_reset_flows(g), << >>, hp, sp, dm, 1)

\* get_edge_flows
get_edge_flows(g) == [e \in DOMAIN g |-> g[e].flow]

\* a faulty BPR that subtracts the congestion term
BPR_minus(free_flow_time, capacity, flow) ==
    free_flow_time
      - (free_flow_time \div CostScale)
          * AlphaNum * Pow(flow * (CapUnit \div capacity), Beta)

\* BPR travel time in cost units for a flow in flow units
BPR(free_flow_time, capacity, flow) ==
    free_flow_time
      + (free_flow_time \div CostScale)
          * AlphaNum * Pow(flow * (CapUnit \div capacity), Beta)

\* AONAssignment.calculate_link_performance
AON_link_performance(g) ==
    [e \in DOMAIN g |-> IF g[e].capacity > 0
                          THEN BPR(g[e].cost, g[e].capacity, g[e].flow)
                          ELSE Inf]

AON_calculate_all_pairs_shortest_path ==
    /\ cls = "AON"
    /\ \E tbl \in PathTables(graph) : shortest_paths' = tbl
    /\ has_paths' = TRUE
    /\ op' = "other"
    /\ status' = "ok"
    /\ warned' = << >>
    /\ UNCHANGED <<cls, edges, graph, demand_file, demand_matrix,
                   run_increments, num_increments, pc, i, increment_records,
                   calls>>

AON_assign_demand ==
    /\ cls = "AON"
    /\ calls < MaxCalls
    /\ LET r == AON_assign(graph, has_paths, shortest_paths, demand_matrix)
       IN /\ graph' = r.graph
          /\ warned' = r.warned
          /\ status' = r.status
    /\ op' = "assign_demand"
    /\ calls' = calls + 1
    /\ UNCHANGED <<cls, edges, has_paths, shortest_paths, demand_file,
                   demand_matrix, run_increments, num_increments, pc, i,
                   increment_records>>

----------------------------------------------------------------------------
(* IAAssignment *)

\* update_link_impedance: cost of every edge from its current flow
IA_update_link_impedance(g) ==
    [e \in DOMAIN g |->
        [g[e] EXCEPT !.cost = IF g[e].capacity > 0
                                THEN BPR(g[e].free_flow_time, g[e].capacity, g[e].flow)
                                ELSE Inf]]

\* the filter of assign_increment on an entry's demand
IA_skips(total_demand) == total_demand <= 0

\* a faulty increment that loads the whole demand in every step
IA_incremental_demand_whole(total_demand, k) == ToFlow(total_demand)

\* incremental_demand = total_demand * increment_ratio, increment_ratio = 1.0 / k
IA_incremental_demand(total_demand, k) == ToFlow(total_demand) \div k

\* a faulty load that records the increment and leaves the total flow alone
RECURSIVE IA_load_path_records_only(_, _, _, _, _)
IA_load_path_records_only(g, inc, path, n, amount) ==
    IF n > Len(path) - 1 THEN [graph |-> g, inc |-> inc]
    ELSE LET u == path[n]
             v == path[n + 1]
         IN IA_load_path_records_only(g,
                                      IF has_edge(g, u, v)
                                        THEN [inc EXCEPT ![<<u, v>>] = @ + amount]
                                        ELSE inc,
                                      path, n + 1, amount)

\* a faulty load that also refreshes the cost of the edge it loads
RECURSIVE IA_load_path_refreshes_cost(_, _, _, _, _)
IA_load_path_refreshes_cost(g, inc, path, n, amount) ==
    IF n > Len(path) - 1 THEN [graph |-> g, inc |-> inc]
    ELSE LET u == path[n]
             v == path[n + 1]
             e == <<u, v>>
         IN IF has_edge(g, u, v)
            THEN IA_load_path_refreshes_cost(
                     [g EXCEPT ![e].flow = @ + amount,
                               ![e].cost = IF g[e].capacity > 0
                                             THEN BPR(g[e].free_flow_time, g[e].capacity,
                                                      g[e].flow + amount)
                                             ELSE Inf],
                     [inc EXCEPT ![e] = @ + amount],
                     path, n + 1, amount)
            ELSE IA_load_path_refreshes_cost(g, inc, path, n + 1, amount)

\* for i in range(len(path) - 1): graph flow and incremental_flows += incremental_demand
RECURSIVE IA_load_path(_, _, _, _, _)
IA_load_path(g, inc, path, n, amount) ==
    IF n > Len(path) - 1 THEN [graph |-> g, inc |-> inc]
    ELSE LET u == path[n]
             v == path[n + 1]
         IN IF has_edge(g, u, v)
            THEN IA_load_path([g EXCEPT ![<<u, v>>].flow = @ + amount],
                              [inc EXCEPT ![<<u, v>>] = @ + amount],
                              path, n + 1, amount)
            ELSE IA_load_path(g, inc, path, n + 1, amount)

\* the loop of assign_increment over demand_matrix.items(), from entry n on
RECURSIVE IA_loop(_, _, _, _, _, _, _, _)
IA_loop(g, inc, w, hp, sp, dm, k, n) ==
    IF n > Len(dm) THEN [graph |-> g, inc |-> inc, warned |-> w, status |-> "ok"]
    ELSE LET od == <<dm[n][1], dm[n][2]>>
             total_demand == dm[n][3]
         IN IF IA_skips(total_demand) THEN IA_loop(g, inc, w, hp, sp, dm, k, n + 1)
            ELSE IF ~hp
                 THEN [graph |-> g, inc |-> inc, warned |-> w, status |-> "AttributeError"]
            ELSE IF od \in DOMAIN sp
                 THEN IF sp[od].path = << >>
                      THEN IA_loop(g, inc, Append(w, od), hp, sp, dm, k, n + 1)
                      ELSE LET r == IA_load_path(g, inc, sp[od].path, 1,
                                                 IA_incremental_demand(total_demand, k))
                           IN IA_loop(r.graph, r.inc, w, hp, sp, dm, k, n + 1)
            ELSE IA_loop(g, inc, w, hp, sp, dm, k, n + 1)

IA_assign_increment(g, hp, sp, dm, k) ==
    IA_loop(g, [e \in DOMAIN g |-> 0], << >>, hp, sp, dm, k, 1)

\* a faulty guard that lets zero increments through
IA_invalid_increments_strict(k) == k < 0

\* the guard at the head of assign_demand
IA_invalid_increments(k) == k <= 0

\* a faulty reset that zeroes the flows and leaves the costs
IA_reset_flows_only(g) == [e \in DOMAIN g |-> [g[e] EXCEPT !.flow = 0]]

\* reset_network
IA_reset(g) == [e \in DOMAIN g |-> [g[e] EXCEPT !.flow = 0, !.cost = g[e].original_cost]]

\* IAAssignment.calculate_link_performance
IA_link_performance(g) == [e \in DOMAIN g |-> g[e].cost]

IA_idle == cls = "IA" /\ pc = "idle"

\* a call other than assign_demand returns no records and prints no warning
IA_no_records ==
    /\ num_increments' = run_increments
    /\ increment_records' = << >>

IA_call_update_link_impedance ==
    /\ IA_idle
    /\ graph' = IA_update_link_impedance(graph)
    /\ op' = "other"
    /\ status' = "ok"
    /\ warned' = << >>
    /\ IA_no_records
    /\ UNCHANGED <<cls, edges, has_paths, shortest_paths, demand_file,
                   demand_matrix, run_increments, pc, i, calls>>

IA_calculate_all_pairs_shortest_path ==
    /\ IA_idle
    /\ \E tbl \in PathTables(graph) : shortest_paths' = tbl
    /\ has_paths' = TRUE
    /\ op' = "other"
    /\ status' = "ok"
    /\ warned' = << >>
    /\ IA_no_records
    /\ UNCHANGED <<cls, edges, graph, demand_file, demand_matrix,
                   run_increments, pc, i, calls>>

\* assign_increment called with increment_ratio = 1.0 / run_increments
IA_call_assign_increment ==
    /\ IA_idle
    /\ calls < MaxCalls
    /\ LET r == IA_assign_increment(graph, has_paths, shortest_paths, demand_matrix,
                                    run_increments)
       IN /\ graph' = r.graph
          /\ warned' = r.warned
          /\ status' = r.status
    /\ op' = "assign_increment"
    /\ calls' = calls + 1
    /\ IA_no_records
    /\ UNCHANGED <<cls, edges, has_paths, shortest_paths, demand_file,
                   demand_matrix, run_increments, pc, i>>

\* assign_demand up to the head of its loop, called with the run's
\* num_increments or with 0
IA_assign_demand ==
    /\ IA_idle
    /\ calls < MaxCalls
    /\ \E k \in {0, run_increments} :
          /\ num_increments' = k
          /\ IF IA_invalid_increments(k)
             THEN /\ status' = "ValueError"
                  /\ UNCHANGED <<pc, i, calls>>
             ELSE /\ status' = "running"
                  /\ pc' = "loop"
                  /\ i' = 0
                  /\ calls' = calls + 1
    /\ increment_records' = << >>
    /\ warned' = << >>
    /\ op' = "assign_demand"
    /\ UNCHANGED <<cls, edges, graph, has_paths, shortest_paths, demand_file,
                   demand_matrix, run_increments>>

\* one iteration of the loop of assign_demand
IA_step ==
    /\ cls = "IA"
    /\ pc = "loop"
    /\ i < num_increments
    /\ LET g1 == IA_update_link_impedance(graph)
       IN \E tbl \in PathTables(g1) :
             LET r == IA_assign_increment(g1, TRUE, tbl, demand_matrix, num_increments)
             IN /\ shortest_paths' = tbl
                /\ graph' = r.graph
                /\ warned' = warned \o r.warned
                /\ increment_records' =
                      Append(increment_records,
                             [iteration |-> i + 1,
                              flows |-> r.inc,
                              link_impedance |-> [e \in DOMAIN g1 |-> r.graph[e].cost]])
    /\ has_paths' = TRUE
    /\ i' = i + 1
    /\ UNCHANGED <<cls, edges, op, demand_file, demand_matrix,
                   run_increments, num_increments, pc, status, calls>>

\* the return of assign_demand after its loop
IA_return ==
    /\ cls = "IA"
    /\ pc = "loop"
    /\ i = num_increments
    /\ pc' = "idle"
    /\ status' = "ok"
    /\ UNCHANGED <<cls, edges, graph, has_paths, shortest_paths, op,
                   demand_file, demand_matrix, run_increments,
                   num_increments, i, increment_records, warned, calls>>

IA_reset_network ==
    /\ IA_idle
    /\ graph' = IA_reset(graph)
    /\ op' = "reset_network"
    /\ status' = "ok"
    /\ warned' = << >>
    /\ IA_no_records
    /\ UNCHANGED <<cls, edges, has_paths, shortest_paths, demand_file,
                   demand_matrix, run_increments, pc, i, calls>>

----------------------------------------------------------------------------

Init ==
    /\ cls \in {"AON", "IA"}
    /\ edges \in Networks
    /\ demand_file \in DemandFiles
    /\ demand_matrix = get_demand(demand_file)
    /\ run_increments \in IF cls = "IA" THEN 1 .. MaxK ELSE {1}
    /\ graph = IF cls = "AON" THEN AON_init(EmptyGraph, edges, 1)
                              ELSE IA_init(EmptyGraph, edges, 1)
    /\ has_paths = FALSE
    /\ shortest_paths = NoTable
    /\ op = "__init__"
    /\ num_increments = run_increments
    /\ pc = "idle"
    /\ i = 0
    /\ increment_records = << >>
    /\ status = "ok"
    /\ warned = << >>
    /\ calls = 0

Next ==
    \/ AON_calculate_all_pairs_shortest_path
    \/ AON_assign_demand
    \/ IA_call_update_link_impedance
    \/ IA_calculate_all_pairs_shortest_path
    \/ IA_call_assign_increment
    \/ IA_assign_demand
    \/ IA_step
    \/ IA_return
    \/ IA_reset_network

Spec == Init /\ [][Next]_vars

----------------------------------------------------------------------------
(* Vocabulary of the properties *)

Edges == DOMAIN graph

Len_dm == Len(demand_matrix)

\* e is a pair of consecutive nodes of path
OnPath(path, e) == \E n \in 1 .. Len(path) - 1 : <<path[n], path[n + 1]>> = e

\* entry n of the demand matrix has positive demand and a stored non-empty path
Routed(n) ==
    /\ demand_matrix[n][3] > 0
    /\ <<demand_matrix[n][1], demand_matrix[n][2]>> \in DOMAIN shortest_paths
    /\ shortest_paths[<<demand_matrix[n][1], demand_matrix[n][2]>>].path # << >>

StoredPath(n) == shortest_paths[<<demand_matrix[n][1], demand_matrix[n][2]>>].path

\* demand of the routed entries whose stored path runs over e, in flow units
PathDemand(e) ==
    SumSeq([n \in 1 .. Len_dm |->
               IF Routed(n) /\ OnPath(StoredPath(n), e)
                 THEN ToFlow(demand_matrix[n][3]) ELSE 0], Len_dm)

\* nodes reachable from the nodes S along edges of g
RECURSIVE ReachSet(_, _)
ReachSet(g, S) ==
    LET T == S \cup {v \in Nodes : \E u \in S : has_edge(g, u, v)}
    IN IF T = S THEN S ELSE ReachSet(g, T)

Unreachable(s, t) == s \in Nodes /\ t \in Nodes /\ s # t /\ t \notin ReachSet(graph, {s})

\* the entries of dm at the positions S, in order
RECURSIVE Restrict(_, _, _)
Restrict(dm, S, n) ==
    IF n > Len(dm) THEN << >>
    ELSE (IF n \in S THEN <<dm[n]>> ELSE << >>) \o Restrict(dm, S, n + 1)

\* flow out of node v minus flow into v in a flow map
NetOut(flows, v) ==
    SumSet([e \in DOMAIN flows |->
               IF e[1] = v THEN flows[e] ELSE IF e[2] = v THEN 0 - flows[e] ELSE 0],
           DOMAIN flows)

\* routed demand leaving v minus routed demand arriving at v, in flow units
NetDemand(v) ==
    SumSeq([n \in 1 .. Len_dm |->
               IF ~Routed(n) THEN 0
               ELSE IF demand_matrix[n][1] = v THEN ToFlow(demand_matrix[n][3])
               ELSE IF demand_matrix[n][2] = v THEN 0 - ToFlow(demand_matrix[n][3])
               ELSE 0], Len_dm)

\* per-edge sum of the flows of the first n increment records
RecordedFlow(e, n) == SumSeq([j \in 1 .. n |-> increment_records[j].flows[e]], n)

AON_returned == cls = "AON" /\ op = "assign_demand" /\ status = "ok" /\ has_paths

IA_in_assign_demand == cls = "IA" /\ op = "assign_demand" /\ status \in {"running", "ok"}

IA_returned == cls = "IA" /\ op = "assign_demand" /\ status = "ok"

----------------------------------------------------------------------------
(* Properties *)

\* C1: after AONAssignment.assign_demand returns (shortest paths computed),
\* the flow of every edge is the sum of the demand of the OD pairs with
\* positive demand whose stored shortest path contains the edge as a
\* consecutive node pair, and 0 for an edge on no such path.
C1_AONFlowIsPathDemand ==
    AON_returned => \A e \in Edges : graph[e].flow = PathDemand(e)

\* two routed pairs share an edge and each also uses or leaves an edge alone
C1_Witness ==
    /\ AON_returned
    /\ Len_dm = 2 /\ Routed(1) /\ Routed(2)
    /\ \E e \in Edges : OnPath(StoredPath(1), e) /\ OnPath(StoredPath(2), e)
    /\ \E e \in Edges : graph[e].flow = 0

\* C2: when IAAssignment.assign_demand returns after K >= 1 steps, the
\* recorded increments of every step carry 1/K of the demand of every OD
\* pair that found a path, from its origin to its destination, so the K
\* increments together carry exactly the pair's demand.
C2_IncrementsSumToDemand ==
    IA_returned =>
        /\ Len(increment_records) = num_increments
        /\ \A v \in Nodes :
              /\ \A j \in 1 .. Len(increment_records) :
                    num_increments * NetOut(increment_records[j].flows, v) = NetDemand(v)
              /\ NetOut([e \in Edges |-> RecordedFlow(e, Len(increment_records))], v)
                    = NetDemand(v)

C2_Witness ==
    /\ IA_returned
    /\ num_increments = 2
    /\ Len_dm = 2 /\ Routed(1) /\ Routed(2)
    /\ \E v \in Nodes : NetDemand(v) > 0

\* C3: in every call of IAAssignment.assign_demand, at every step boundary
\* and at the return, the flow of every edge in the graph is the sum of the
\* flows of the increment records made so far by that call.
C3_FlowIsSumOfRecords ==
    IA_in_assign_demand =>
        \A e \in Edges : graph[e].flow = RecordedFlow(e, Len(increment_records))

\* C4: every call of IAAssignment.assign_demand enters its first step with
\* every edge flow 0 and every edge cost equal to the free-flow time.
C4_StartsFromInitialize ==
    (cls = "IA" /\ pc = "loop" /\ i = 0) =>
        \A e \in Edges : graph[e].flow = 0 /\ graph[e].cost = graph[e].free_flow_time

\* C5: after IAAssignment.assign_demand has completed, the link performance
\* of every edge is the BPR cost of the edge's final cumulative flow.
C5_PerformanceFromFinalFlow ==
    IA_returned =>
        \A e \in Edges :
            IA_link_performance(graph)[e] =
                IF graph[e].capacity > 0
                  THEN BPR(graph[e].free_flow_time, graph[e].capacity, graph[e].flow)
                  ELSE Inf

\* C6: a call of IAAssignment.assign_demand with num_increments <= 0 raises
\* ValueError and changes no edge flow, no edge cost, no stored shortest
\* path and produces no increment record.
C6_NonPositiveIncrementsRejected ==
    [][(cls = "IA" /\ pc = "idle" /\ op' = "assign_demand" /\ num_increments' <= 0)
          => /\ status' = "ValueError"
             /\ pc' = "idle"
             /\ graph' = graph
             /\ has_paths' = has_paths
             /\ shortest_paths' = shortest_paths
             /\ increment_records' = << >>]_vars

\* a rejected call on a network that already carries flow
C6_Witness ==
    /\ cls = "IA" /\ op = "assign_demand" /\ status = "ValueError"
    /\ num_increments <= 0
    /\ \E e \in Edges : graph[e].flow > 0

\* C7: in every reachable state of an IAAssignment the current cost of
\* every edge is at least its free-flow time.
C7_CostAtLeastFreeFlow ==
    cls = "IA" => \A e \in Edges : graph[e].cost >= graph[e].free_flow_time

\* a congested edge: finite cost above the free-flow time
C7_Witness ==
    /\ cls = "IA"
    /\ \E e \in Edges : /\ graph[e].cost > graph[e].free_flow_time
                        /\ graph[e].cost < Inf
                        /\ graph[e].flow > 0

\* the demand matrix without the entries of positive demand whose
\* destination is unreachable from the origin
ReachableDemand ==
    Restrict(demand_matrix,
             {n \in 1 .. Len_dm :
                 ~(demand_matrix[n][3] > 0
                     /\ Unreachable(demand_matrix[n][1], demand_matrix[n][2]))},
             1)

\* C8: the shortest-path table holds the empty path for every pair whose
\* target is unreachable; an assigning call neither raises on such a pair
\* nor changes a flow because of it: AON and every IA step load exactly
\* what they load for the demand matrix without these pairs.
C8_UnreachablePairsSkipped ==
    /\ has_paths =>
          \A st \in NodePairs :
              Unreachable(st[1], st[2]) => shortest_paths[st].path = << >>
    /\ (cls = "AON" /\ op = "assign_demand" /\ has_paths) =>
          /\ status = "ok"
          /\ get_edge_flows(graph) =
                get_edge_flows(AON_assign(graph, TRUE, shortest_paths, ReachableDemand).graph)
    /\ (cls = "IA" /\ op = "assign_demand" /\ num_increments > 0) =>
          /\ status \in {"running", "ok"}
          /\ Len(increment_records) > 0 =>
                increment_records[Len(increment_records)].flows =
                    IA_assign_increment(graph, TRUE, shortest_paths,
                                        ReachableDemand, num_increments).inc

\* an unreachable pair is skipped and another pair of the matrix is loaded
C8_Witness ==
    /\ op = "assign_demand" /\ status = "ok" /\ has_paths
    /\ \E n \in 1 .. Len_dm :
          demand_matrix[n][3] > 0 /\ Unreachable(demand_matrix[n][1], demand_matrix[n][2])
    /\ \E n \in 1 .. Len_dm : Routed(n)
    /\ \E e \in Edges : graph[e].flow > 0

\* C9: for the stored shortest paths, the flows AON assigns to a demand
\* matrix are, edge by edge, the sum of the flows it assigns to the two
\* parts of any split of the matrix into disjoint sets of OD pairs.
C9_AONAdditive ==
    AON_returned =>
        \A S \in SUBSET (1 .. Len_dm) :
            \A e \in Edges :
                graph[e].flow =
                    AON_assign(graph, TRUE, shortest_paths,
                               Restrict(demand_matrix, S, 1)).graph[e].flow
                  + AON_assign(graph, TRUE, shortest_paths,
                               Restrict(demand_matrix, (1 .. Len_dm) \ S, 1)).graph[e].flow

\* both parts of a split load flow, on a common edge
C9_Witness ==
    /\ AON_returned
    /\ Len_dm = 2 /\ Routed(1) /\ Routed(2)
    /\ \E e \in Edges :
          /\ OnPath(StoredPath(1), e) /\ OnPath(StoredPath(2), e)
          /\ graph[e].flow = ToFlow(demand_matrix[1][3]) + ToFlow(demand_matrix[2][3])

\* C10: an edge with capacity <= 0 never carries flow.
C10_NoFlowOnZeroCapacity ==
    \A e \in Edges : graph[e].capacity <= 0 => graph[e].flow = 0

\* the directed edges the edge list names
InputEdges == {<<edges[n][1], edges[n][2]>> : n \in 1 .. Len(edges)}

\* the last entry of the edge list for the directed edge e
LastInput(e) ==
    edges[CHOOSE n \in 1 .. Len(edges) :
              /\ <<edges[n][1], edges[n][2]>> = e
              /\ \A m \in n + 1 .. Len(edges) : <<edges[m][1], edges[m][2]>> # e]

\* free-flow time the constructor stored for e (the 'cost' argument in AON)
StoredFreeFlow(e) == IF cls = "AON" THEN graph[e].cost ELSE graph[e].original_cost

\* C11: the network holds exactly the directed edges (begin, end) the edge
\* list names, one per input edge, no reverse edge that the list does not
\* give, and every edge keeps the free-flow time and capacity of its own
\* input entry, whatever the list gives for the opposite direction.
C11_OneDirectedEdgePerInput ==
    /\ Edges = InputEdges
    /\ \A e \in InputEdges :
          /\ StoredFreeFlow(e) = ToCost(LastInput(e)[3])
          /\ graph[e].capacity = LastInput(e)[4]

\* the sum of the amounts the demand file gives for the pair (o, d)
FileTotal(o, d) ==
    SumSeq([n \in 1 .. Len(demand_file) |->
               IF demand_file[n][1] = o /\ demand_file[n][2] = d
                 THEN demand_file[n][3] ELSE 0], Len(demand_file))

\* C12: the demand matrix holds every pair of the demand file, and the
\* demand of a pair is the sum of the amounts of all the file's entries for
\* that pair.
C12_DuplicateEntriesAdditive ==
    /\ \A n \in 1 .. Len(demand_file) :
          \E m \in 1 .. Len_dm : /\ demand_matrix[m][1] = demand_file[n][1]
                                 /\ demand_matrix[m][2] = demand_file[n][2]
    /\ \A m \in 1 .. Len_dm :
          demand_matrix[m][3] = FileTotal(demand_matrix[m][1], demand_matrix[m][2])

\* the demand matrix without its entries of zero or negative demand
PositiveDemand ==
    Restrict(demand_matrix, {n \in 1 .. Len_dm : demand_matrix[n][3] > 0}, 1)

\* C13: every AON assign_demand, every IA step and every assign_increment
\* ends with the outcome, the warnings and the edge flows and costs it has
\* for the demand matrix without the entries of zero or negative demand, and
\* leaves no edge with a negative flow.
C13_NonPositiveDemandIsNoOp ==
    [][/\ (cls = "AON" /\ calls' = calls + 1) =>
              LET r == AON_assign(graph, has_paths, shortest_paths, PositiveDemand)
              IN graph' = r.graph /\ status' = r.status /\ warned' = r.warned
       /\ (cls = "IA" /\ pc = "loop" /\ i' = i + 1) =>
              LET r == IA_assign_increment(IA_update_link_impedance(graph), TRUE,
                                           shortest_paths', PositiveDemand, num_increments)
              IN /\ graph' = r.graph
                 /\ warned' = warned \o r.warned
                 /\ increment_records'[i'].flows = r.inc
       /\ (cls = "IA" /\ op' = "assign_increment") =>
              LET r == IA_assign_increment(graph, has_paths, shortest_paths,
                                           PositiveDemand, run_increments)
              IN graph' = r.graph /\ status' = r.status /\ warned' = r.warned
       /\ \A e \in Edges : graph'[e].flow >= 0]_vars

\* a returned assignment that skipped an entry of zero or negative demand
\* for a pair with a stored path and loaded another entry
C13_Witness ==
    /\ op = "assign_demand" /\ status = "ok" /\ has_paths
    /\ \E n \in 1 .. Len_dm :
          /\ demand_matrix[n][3] <= 0
          /\ <<demand_matrix[n][1], demand_matrix[n][2]>> \in DOMAIN shortest_paths
          /\ StoredPath(n) # << >>
    /\ \E n \in 1 .. Len_dm : Routed(n)
    /\ \E e \in Edges : graph[e].flow > 0

\* C14: IAAssignment.reset_network, from any state, leaves every edge with
\* flow 0 and cost equal to its free-flow time and changes nothing else of
\* the network; resetting the result again changes nothing.
C14_ResetTotalIdempotent ==
    [][(cls = "IA" /\ op' = "reset_network") =>
          /\ DOMAIN graph' = DOMAIN graph
          /\ \A e \in Edges :
                /\ graph'[e].flow = 0
                /\ graph'[e].cost = graph[e].free_flow_time
                /\ graph'[e].free_flow_time = graph[e].free_flow_time
                /\ graph'[e].capacity = graph[e].capacity
          /\ IA_reset(graph') = graph'
          /\ shortest_paths' = shortest_paths]_vars

\* a reset after an assignment whose last path table was computed on
\* congested costs: the stored cost of a path is not its cost after the reset
C14_Witness ==
    /\ cls = "IA" /\ op = "reset_network" /\ calls > 0 /\ has_paths
    /\ \A e \in Edges : graph[e].flow = 0
    /\ \E st \in NodePairs :
          /\ shortest_paths[st].path # << >>
          /\ shortest_paths[st].cost < Inf
          /\ shortest_paths[st].cost > path_length(graph, shortest_paths[st].path)

\* the cost of section 4.2 for edge e of the network g carrying its flow in g
CostOfFlow(g, e) ==
    IF g[e].capacity > 0 THEN BPR(g[e].free_flow_time, g[e].capacity, g[e].flow) ELSE Inf

\* C15: in every step of IAAssignment.assign_demand, the cost field after
\* the step and the link impedance recorded for the step are the cost of the
\* cumulative flow the edges carried before the step; the one path table of
\* the step holds minimum-cost paths of that cost field, and every OD pair
\* with a path is loaded along its path of that table, whatever the step
\* loaded for other pairs.
C15_StepCostFromEarlierSteps ==
    [][(cls = "IA" /\ pc = "loop" /\ i' = i + 1) =>
          /\ \A e \in Edges :
                /\ graph'[e].cost = CostOfFlow(graph, e)
                /\ increment_records'[i'].link_impedance[e] = CostOfFlow(graph, e)
                /\ num_increments * increment_records'[i'].flows[e] = PathDemand(e)'
                /\ graph'[e].flow = graph[e].flow + increment_records'[i'].flows[e]
          /\ \A st \in NodePairs :
                shortest_paths'[st] \in PathEntries(graph', st[1], st[2])]_vars

\* the second step of a run has routed two pairs over a common edge that
\* the first step has congested
C15_Witness ==
    /\ IA_in_assign_demand
    /\ Len(increment_records) = 2
    /\ Len_dm = 2 /\ Routed(1) /\ Routed(2)
    /\ \E e \in Edges :
          /\ OnPath(StoredPath(1), e) /\ OnPath(StoredPath(2), e)
          /\ increment_records[2].link_impedance[e] > graph[e].free_flow_time
          /\ increment_records[2].link_impedance[e] < Inf
          /\ increment_records[2].flows[e] > 0

\* the orders in which n entries can be iterated
Perms(n) == {p \in [1 .. n -> 1 .. n] : \A a, b \in 1 .. n : a # b => p[a] # p[b]}

\* the demand matrix dm iterated in the order p
Permuted(dm, p) == [k \in 1 .. Len(dm) |-> dm[p[k]]]

\* C16: the edge flows an AON assign_demand leaves, and the edge flows and
\* the increment an IA step leaves, are those of the same pass over the
\* demand matrix in any other iteration order of its OD pairs.
C16_OrderIndependent ==
    [][/\ (cls = "AON" /\ calls' = calls + 1) =>
              \A p \in Perms(Len_dm) :
                  get_edge_flows(graph') =
                      get_edge_flows(AON_assign(graph, has_paths, shortest_paths,
                                                Permuted(demand_matrix, p)).graph)
       /\ (cls = "IA" /\ pc = "loop" /\ i' = i + 1) =>
              \A p \in Perms(Len_dm) :
                  LET r == IA_assign_increment(graph, TRUE, shortest_paths',
                                               Permuted(demand_matrix, p), num_increments)
                  IN /\ get_edge_flows(graph') = get_edge_flows(r.graph)
                     /\ increment_records'[i'].flows = r.inc]_vars

\* a pass over two pairs of which one has a path and the other has none
\* or shares an edge with the first
C16_Witness ==
    /\ op = "assign_demand" /\ status \in {"running", "ok"} /\ has_paths
    /\ cls = "IA" => Len(increment_records) > 0
    /\ Len_dm = 2 /\ demand_matrix[1][3] > 0 /\ demand_matrix[2][3] > 0
    /\ Routed(2)
    /\ \/ /\ <<demand_matrix[1][1], demand_matrix[1][2]>> \in DOMAIN shortest_paths
          /\ StoredPath(1) = << >>
       \/ /\ Routed(1)
          /\ \E e \in Edges : OnPath(StoredPath(1), e) /\ OnPath(StoredPath(2), e)
    /\ \E e \in Edges : graph[e].flow > 0

\* the pair of entry n of the demand matrix is among the warnings printed
Warned(n) ==
    \E k \in 1 .. Len(warned) : warned[k] = <<demand_matrix[n][1], demand_matrix[n][2]>>

\* C17: after an assigning call has returned, every OD pair of positive
\* demand that was not loaded onto a path was reported by a 'no path'
\* warning, also a pair with a non-node end and a pair with origin =
\* destination.
C17_DroppedDemandIsWarned ==
    (op \in {"assign_demand", "assign_increment"} /\ status = "ok" /\ pc = "idle") =>
        \A n \in 1 .. Len_dm : demand_matrix[n][3] > 0 => Routed(n) \/ Warned(n)

\* C18: AONAssignment.assign_demand leaves the edge set, the cost and the
\* capacity of every edge and the stored shortest-path table as they were
\* before the call.
C18_AONChangesOnlyFlow ==
    [][(cls = "AON" /\ calls' = calls + 1) =>
          /\ DOMAIN graph' = DOMAIN graph
          /\ \A e \in Edges : /\ graph'[e].cost = graph[e].cost
                              /\ graph'[e].capacity = graph[e].capacity
          /\ has_paths' = has_paths
          /\ shortest_paths' = shortest_paths]_vars

\* a returned AON run has loaded an edge whose BPR time is now above the
\* cost it is routed by
C18_Witness ==
    /\ AON_returned
    /\ \E e \in Edges : /\ graph[e].flow > 0
                        /\ graph[e].capacity > 0
                        /\ AON_link_performance(graph)[e] > graph[e].cost

\* the AONAssignment constructed from the same edge list
AON_twin == AON_init(EmptyGraph, edges, 1)

\* the first assigning call on the object was assign_demand with
\* num_increments = 1, on a network whose capacities are all positive
IA_single_step_run ==
    /\ IA_returned
    /\ num_increments = 1
    /\ calls = 1
    /\ \A e \in Edges : graph[e].capacity > 0

\* C19: on a network with all capacities > 0, the first assign_demand of an
\* IAAssignment with num_increments = 1 routes by a path table that
\* calculate_all_pairs_shortest_path can give the AONAssignment of the same
\* input, and returns for every edge the flow AONAssignment.assign_demand
\* returns with that table and the same demand matrix.
C19_SingleIncrementIsAON ==
    IA_single_step_run =>
        /\ shortest_paths \in PathTables(AON_twin)
        /\ get_edge_flows(graph) =
              get_edge_flows(AON_assign(AON_twin, TRUE, shortest_paths, demand_matrix).graph)

\* a single-step run that loaded two pairs, one of them with a choice
\* between two paths of equal cost
C19_Witness ==
    /\ IA_single_step_run
    /\ Len_dm = 2 /\ Routed(1) /\ Routed(2)
    /\ \E n \in 1 .. 2 :
          Cardinality(MinPaths(AON_twin, demand_matrix[n][1], demand_matrix[n][2])) > 1
    /\ \E e \in Edges : graph[e].flow > ToFlow(1)

\* the network after a call of assign_demand on g with the entries S of the
\* demand matrix
AfterEarlierCall(g, S) ==
    AON_assign(g, has_paths, shortest_paths, Restrict(demand_matrix, S, 1)).graph

\* C20: whatever flows earlier calls left, AONAssignment.assign_demand
\* ends with the outcome and the edge flows it has on the freshly
\* constructed network with the same path table and demand matrix; so it
\* does after an earlier call with any other matrix made of entries of
\* this one, and calling it once more with the same matrix returns the
\* same flows.
C20_AONIndependentOfEarlierCalls ==
    [][(cls = "AON" /\ calls' = calls + 1) =>
          LET alone == AON_assign(AON_twin, has_paths, shortest_paths, demand_matrix)
              again == AON_assign(graph', has_paths', shortest_paths', demand_matrix')
          IN /\ get_edge_flows(graph') = get_edge_flows(alone.graph)
             /\ status' = alone.status
             /\ get_edge_flows(again.graph) = get_edge_flows(graph')
             /\ \A S \in SUBSET (1 .. Len_dm) :
                   get_edge_flows(AON_assign(AfterEarlierCall(graph, S), has_paths,
                                             shortest_paths, demand_matrix).graph)
                       = get_edge_flows(alone.graph)]_vars

\* a second call has returned on a network the first call had loaded
C20_Witness ==
    /\ AON_returned
    /\ calls = 2
    /\ \E n \in 1 .. Len_dm : Routed(n)
    /\ \E e \in Edges : graph[e].flow > 0

====
